---- MODULE Spec2Model ----
(***************************************************************************)
(* audiodumper: main() of src/audiodumper/cli.py as a state machine.       *)
(*                                                                         *)
(* One job = one invocation of main(filepath, output, transpose, yes).     *)
(* The job runs its statements in order; between two statements another    *)
(* process may create a file at the output path (ExternalCreate), which is *)
(* the race the overwrite logic of the code talks about.                   *)
(*                                                                         *)
(* Python's None is the empty sequence <<>>, a value v is <<v>>.           *)
(* A string of the program is a sequence of one-character strings.         *)
(***************************************************************************)
EXTENDS Integers, Sequences, FiniteSets

VARIABLES
    filepath,    \* argument FILEPATH
    output,      \* option --output: None or a path (possibly the empty string)
    transpose,   \* option --transpose: None or an integer
    yes,         \* flag --yes
    libsInstalled, \* whether librosa and soundfile can be imported
    out0,        \* the file at the output path when the job starts
    outFile,     \* the file at the output path now
    tmp,         \* local tmp: None or the name of the temporary file
    tmpFile,     \* the file at the temporary path now
    out_path,    \* local out_path
    overwrite,   \* local overwrite
    semitones,   \* local semitones
    guardSaw,    \* what os.path.exists(out_path) returned at line 31, None before
    answer,      \* what click.confirm did: None (not called), "y", "n", "eof"
    ffAnswer,    \* ffmpeg's own overwrite question: None (not asked), "y", "n"
    y,           \* loaded samples: None or <<"mono">>
    y_shifted,   \* shifted samples: None or <<n>>, the steps they were shifted by
    stdout,      \* the lines click.echo printed
    stderrOut,   \* the lines click's command wrapper printed for an exception
    exc,         \* the exception in flight: None or <<[type, detail]>>
    origExc,     \* the exception the except clauses of lines 104-113 caught
    exitCode,    \* None while running, then <<0>> or <<1>>
    pc,          \* the statement main() is at
    trace        \* the calls made so far on the terminal, the libraries and the files

vars == <<filepath, output, transpose, yes, libsInstalled, out0, outFile, tmp, tmpFile, out_path,
          overwrite, semitones, guardSaw, answer, ffAnswer, y, y_shifted, stdout,
          stderrOut, exc, origExc, exitCode, pc, trace>>

None == <<>>

Some(v) == <<v>>

(***************************************************************************)
(* Bounds of the model.                                                    *)
(***************************************************************************)
MaxSemitone == 1

MaxStderrLen == 2

(***************************************************************************)
(* Strings.                                                                *)
(***************************************************************************)
RECURSIVE rfind(_, _, _)
rfind(s, c, i) ==
    IF i = 0 THEN 0
    ELSE IF s[i] = c THEN i
    ELSE rfind(s, c, i - 1)

basename(p) == SubSeq(p, rfind(p, "/", Len(p)) + 1, Len(p))

\* os.path.splitext: the extension starts at the last dot, unless only dots
\* precede it in the file name (".bashrc" has no extension).
splitext(p) ==
    LET sepIndex == rfind(p, "/", Len(p))
        dotIndex == rfind(p, ".", Len(p))
    IN  IF dotIndex > sepIndex
           /\ \E k \in (sepIndex + 1)..(dotIndex - 1) : p[k] # "."
        THEN <<SubSeq(p, 1, dotIndex - 1), SubSeq(p, dotIndex, Len(p))>>
        ELSE <<p, <<>>>>

_default_output_path(input_path) ==
    splitext(basename(input_path))[1] \o <<".", "w", "a", "v">>

DigitChars == <<"0", "1", "2", "3", "4", "5", "6", "7", "8", "9">>

RECURSIVE Digits(_)
Digits(n) ==
    IF n < 10 THEN <<DigitChars[n + 1]>>
    ELSE Append(Digits(n \div 10), DigitChars[(n % 10) + 1])

\* f"{semitones:+d}": always a sign, then the magnitude in decimal.
SignedFmt(n) == IF n >= 0 THEN <<"+">> \o Digits(n) ELSE <<"-">> \o Digits(0 - n)

\* bytes.decode('utf-8', errors='ignore'): undecodable bytes are dropped.
Decodable(b) == b # "xFF"

Decode(bytes) == SelectSeq(bytes, Decodable)

(***************************************************************************)
(* Inputs.                                                                 *)
(***************************************************************************)
FilePaths == { <<"/", "a", "/", "s", ".", "m">>, <<".", "h">> }

Outputs == { None, Some(<<>>), Some(<<"o", ".", "w">>) }

Transposes == { None } \cup { Some(n) : n \in (0 - MaxSemitone)..MaxSemitone }

Bytes == { "e", "xFF" }

RECURSIVE SeqsUpTo(_, _)
SeqsUpTo(S, n) ==
    IF n = 0 THEN { <<>> }
    ELSE LET shorter == SeqsUpTo(S, n - 1)
         IN  shorter \cup { Append(s, b) : s \in shorter, b \in S }

Stderrs == SeqsUpTo(Bytes, MaxStderrLen)

\* A file that is there: os.path.exists is true of it.
Exists(f) == f # "absent"

Exc(type, detail) == Some([type |-> type, detail |-> detail])

Init ==
    /\ filepath \in FilePaths
    /\ output \in Outputs
    /\ transpose \in Transposes
    /\ yes \in BOOLEAN
    /\ libsInstalled \in BOOLEAN
    /\ out0 \in { "absent", "orig" }
    /\ outFile = out0
    /\ tmp = None
    /\ tmpFile = "absent"
    /\ out_path = None
    /\ overwrite = FALSE
    /\ semitones = None
    /\ guardSaw = None
    /\ answer = None
    /\ ffAnswer = None
    /\ y = None
    /\ y_shifted = None
    /\ stdout = <<>>
    /\ stderrOut = <<>>
    /\ exc = None
    /\ origExc = None
    /\ exitCode = None
    /\ pc = "guard"
    /\ trace = <<>>

\* What the job is given and never assigns.
Inputs == <<filepath, output, transpose, yes, libsInstalled, out0>>

(***************************************************************************)
(* Lines 28-38: the output path and the overwrite guard.                   *)
(***************************************************************************)
\* `output or _default_output_path(filepath)`: None and "" are both falsy.
ResolveOutPath(o, f) ==
    IF o # None /\ o[1] # <<>> THEN o[1] ELSE _default_output_path(f)

NeedsPromptIgnoringYes(exists, ow) == exists

\* line 31
NeedsPrompt(exists, ow) == exists /\ ~ow

DeclinedNever(a) == FALSE

\* line 33: `if not click.confirm(...)`
Declined(a) == a = "n"

AbortedMsg == <<"Aborted: output file exists and overwrite not confirmed.">>

Guard ==
    /\ pc = "guard"
    /\ out_path' = Some(ResolveOutPath(output, filepath))
    /\ guardSaw' = Some(Exists(outFile))
    /\ IF NeedsPrompt(Exists(outFile), yes)
       THEN \E a \in { "y", "n", "eof" } :
              /\ answer' = Some(a)
              /\ trace' = Append(trace, "confirm")
              /\ IF a = "eof"
                 THEN \* click.confirm raises Abort itself on end of input
                      /\ exc' = Exc("Abort", <<>>)
                      /\ pc' = "exit"
                      /\ overwrite' = yes
                      /\ UNCHANGED stdout
                 ELSE IF Declined(a)
                 THEN /\ stdout' = Append(stdout, AbortedMsg)
                      /\ exc' = Exc("Abort", <<>>)
                      /\ pc' = "exit"
                      /\ overwrite' = yes
                 ELSE /\ overwrite' = TRUE
                      /\ pc' = "select"
                      /\ UNCHANGED <<stdout, exc>>
       ELSE /\ overwrite' = yes
            /\ pc' = "select"
            /\ UNCHANGED <<answer, trace, stdout, exc>>
    /\ UNCHANGED <<Inputs, origExc, outFile, tmp, tmpFile,
                   semitones, ffAnswer, y, y_shifted, stderrOut, exitCode>>

(***************************************************************************)
(* Lines 41-49 and 58: the transposition amount selects the pipeline.      *)
(***************************************************************************)
UseDirectFalsy(s) == s = None \/ s = Some(0)

\* line 49: `if semitones is None`
UseDirect(s) == s = None

Select ==
    /\ pc = "select"
    /\ semitones' = transpose
    /\ pc' = IF UseDirect(transpose) THEN "direct" ELSE "import"
    /\ UNCHANGED <<Inputs, origExc, outFile, tmp, tmpFile, out_path, overwrite, guardSaw,
                   answer, ffAnswer, y, y_shifted, stdout, stderrOut, exc,
                   exitCode, trace>>

(***************************************************************************)
(* Lines 50-56: the direct path. ffmpeg gets -y (overwrite_output) only    *)
(* when overwrite is set. Without -y, ffmpeg finding a file at its output  *)
(* asks on its own standard input and exits with an error unless the       *)
(* answer is yes. A run that fails may leave a partial output behind.      *)
(***************************************************************************)
AllowOverwriteAlways == TRUE

\* lines 53-56
AllowOverwrite == overwrite

DirectTranscode ==
    /\ pc = "direct"
    /\ trace' = Append(trace, "transcode_direct")
    /\ \E a \in { "y", "n" }, ok \in BOOLEAN, s \in Stderrs, part \in BOOLEAN :
         LET asks == Exists(outFile) /\ ~AllowOverwrite
         IN  /\ ffAnswer' = IF asks THEN Some(a) ELSE ffAnswer
             /\ IF asks /\ a = "n"
                THEN /\ exc' = Exc("ffmpeg.Error", s)
                     /\ pc' = "handler"
                     /\ UNCHANGED outFile
                ELSE IF ok
                THEN /\ outFile' = "direct"
                     /\ pc' = "echo"
                     /\ UNCHANGED exc
                ELSE /\ exc' = Exc("ffmpeg.Error", s)
                     /\ pc' = "handler"
                     /\ outFile' = IF part THEN "partial" ELSE outFile
    /\ UNCHANGED <<Inputs, origExc, tmp, tmpFile, out_path, overwrite, semitones, guardSaw,
                   answer, y, y_shifted, stdout, stderrOut, exitCode>>

(***************************************************************************)
(* Lines 61-67: the optional dependencies of the transpose path.           *)
(***************************************************************************)
MissingMsg == <<"Missing optional dependencies for transpose: install 'librosa' and 'soundfile'">>

ImportLibsSwallow ==
    /\ pc = "import"
    /\ trace' = Append(trace, "import")
    /\ pc' = "alloc"
    /\ UNCHANGED <<Inputs, origExc, outFile, tmp, tmpFile, out_path, overwrite, semitones,
                   guardSaw, answer, ffAnswer, y, y_shifted, stdout, stderrOut,
                   exc, exitCode>>

ImportLibs ==
    /\ pc = "import"
    /\ trace' = Append(trace, "import")
    /\ IF libsInstalled
       THEN /\ pc' = "alloc"
            /\ UNCHANGED exc
       ELSE /\ exc' = Exc("ClickException", MissingMsg)
            /\ pc' = "handler"
    /\ UNCHANGED <<Inputs, origExc, outFile, tmp, tmpFile, out_path, overwrite, semitones,
                   guardSaw, answer, ffAnswer, y, y_shifted, stdout, stderrOut,
                   exitCode>>

(***************************************************************************)
(* Lines 69-72: the temporary file. NamedTemporaryFile(delete=False)       *)
(* creates an empty file and the with block closes it.                     *)
(***************************************************************************)
AllocTmpRemovingOutput ==
    /\ pc = "alloc"
    /\ trace' = trace \o (IF overwrite /\ Exists(outFile) THEN <<"remove_out">> ELSE <<>>)
                     \o <<"mktemp">>
    /\ outFile' = IF overwrite /\ Exists(outFile) THEN "absent" ELSE outFile
    /\ \E ok \in BOOLEAN :
         IF ok
         THEN /\ tmp' = Some("tmp.wav")
              /\ tmpFile' = "empty"
              /\ pc' = "transcode"
              /\ UNCHANGED exc
         ELSE /\ exc' = Exc("Exception", <<"mktemp">>)
              /\ pc' = "cleanup"
              /\ UNCHANGED <<tmp, tmpFile>>
    /\ UNCHANGED <<Inputs, origExc, out_path, overwrite, semitones, guardSaw,
                   answer, ffAnswer, y, y_shifted, stdout, stderrOut, exitCode>>

AllocTmp ==
    /\ pc = "alloc"
    /\ trace' = Append(trace, "mktemp")
    /\ \E ok \in BOOLEAN :
         IF ok
         THEN /\ tmp' = Some("tmp.wav")
              /\ tmpFile' = "empty"
              /\ pc' = "transcode"
              /\ UNCHANGED exc
         ELSE /\ exc' = Exc("Exception", <<"mktemp">>)
              /\ pc' = "cleanup"
              /\ UNCHANGED <<tmp, tmpFile>>
    /\ UNCHANGED <<Inputs, origExc, outFile, out_path, overwrite, semitones, guardSaw,
                   answer, ffAnswer, y, y_shifted, stdout, stderrOut, exitCode>>

(***************************************************************************)
(* Lines 75-77: transcode to the temporary file, always with -y.           *)
(***************************************************************************)
TranscodeTmp ==
    /\ pc = "transcode"
    /\ trace' = Append(trace, "transcode_tmp")
    /\ \E ok \in BOOLEAN, s \in Stderrs, part \in BOOLEAN :
         IF ok
         THEN /\ tmpFile' = "wav"
              /\ pc' = "load"
              /\ UNCHANGED exc
         ELSE /\ exc' = Exc("ffmpeg.Error", s)
              /\ pc' = "cleanup"
              /\ tmpFile' = IF part THEN "partial" ELSE tmpFile
    /\ UNCHANGED <<Inputs, origExc, outFile, tmp, out_path, overwrite, semitones, guardSaw,
                   answer, ffAnswer, y, y_shifted, stdout, stderrOut, exitCode>>

(***************************************************************************)
(* Line 80: librosa.load(tmp, sr=None, mono=True).                         *)
(***************************************************************************)
Load ==
    /\ pc = "load"
    /\ trace' = Append(trace, "load")
    /\ \E ok \in BOOLEAN :
         IF ok
         THEN /\ y' = Some("mono")
              /\ pc' = "shift"
              /\ UNCHANGED exc
         ELSE /\ exc' = Exc("Exception", <<"load">>)
              /\ pc' = "cleanup"
              /\ UNCHANGED y
    /\ UNCHANGED <<Inputs, origExc, outFile, tmp, tmpFile, out_path, overwrite, semitones,
                   guardSaw, answer, ffAnswer, y_shifted, stdout, stderrOut,
                   exitCode>>

(***************************************************************************)
(* Line 82: librosa.effects.pitch_shift(y, n_steps=semitones, sr=sr).      *)
(***************************************************************************)
Shift ==
    /\ pc = "shift"
    /\ trace' = Append(trace, "pitch_shift")
    /\ \E ok \in BOOLEAN :
         IF ok
         THEN /\ y_shifted' = Some(semitones[1])
              /\ pc' = "prewrite"
              /\ UNCHANGED exc
         ELSE /\ exc' = Exc("Exception", <<"pitch_shift">>)
              /\ pc' = "cleanup"
              /\ UNCHANGED y_shifted
    /\ UNCHANGED <<Inputs, origExc, outFile, tmp, tmpFile, out_path, overwrite, semitones,
                   guardSaw, answer, ffAnswer, y, stdout, stderrOut, exitCode>>

(***************************************************************************)
(* Lines 86-90: remove the output first when overwrite is set; a failing   *)
(* os.remove is swallowed.                                                 *)
(***************************************************************************)
PreWriteRemove ==
    /\ pc = "prewrite"
    /\ IF overwrite /\ Exists(outFile)
       THEN \E ok \in BOOLEAN :
              IF ok
              THEN /\ outFile' = "absent"
                   /\ trace' = Append(trace, "remove_out")
              ELSE /\ trace' = Append(trace, "remove_out_failed")
                   /\ UNCHANGED outFile
       ELSE UNCHANGED <<outFile, trace>>
    /\ pc' = "write"
    /\ UNCHANGED <<Inputs, origExc, tmp, tmpFile, out_path, overwrite, semitones, guardSaw,
                   answer, ffAnswer, y, y_shifted, stdout, stderrOut, exc,
                   exitCode>>

(***************************************************************************)
(* Line 91: sf.write(out_path, ...) opens the path for writing whatever is *)
(* there: it takes no overwrite argument. A failing write may leave a      *)
(* partial file.                                                           *)
(***************************************************************************)
Write ==
    /\ pc = "write"
    /\ trace' = Append(trace, "write")
    /\ \E ok \in BOOLEAN, part \in BOOLEAN :
         IF ok
         THEN /\ outFile' = "shifted"
              /\ UNCHANGED exc
         ELSE /\ exc' = Exc("Exception", <<"write">>)
              /\ outFile' = IF part THEN "partial" ELSE outFile
    /\ pc' = "cleanup"
    /\ UNCHANGED <<Inputs, origExc, tmp, tmpFile, out_path, overwrite, semitones, guardSaw,
                   answer, ffAnswer, y, y_shifted, stdout, stderrOut, exitCode>>

(***************************************************************************)
(* Lines 92-97: the finally block. It runs on every way out of the try     *)
(* block of line 70; a failing os.remove is swallowed.                     *)
(***************************************************************************)
NeedsRemovalOnSuccess == tmp # None /\ Exists(tmpFile) /\ exc = None

\* line 93
NeedsRemoval == tmp # None /\ Exists(tmpFile)

Cleanup ==
    /\ pc = "cleanup"
    /\ IF NeedsRemoval
       THEN \E ok \in BOOLEAN :
              IF ok
              THEN /\ tmpFile' = "absent"
                   /\ trace' = Append(trace, "remove_tmp")
              ELSE /\ trace' = Append(trace, "remove_tmp_failed")
                   /\ UNCHANGED tmpFile
       ELSE UNCHANGED <<tmpFile, trace>>
    /\ pc' = IF exc = None THEN "echo" ELSE "handler"
    /\ UNCHANGED <<Inputs, origExc, outFile, tmp, out_path, overwrite, semitones, guardSaw,
                   answer, ffAnswer, y, y_shifted, stdout, stderrOut, exc,
                   exitCode>>

(***************************************************************************)
(* Lines 99-102: the success line.                                         *)
(***************************************************************************)
WroteLine(path, st) ==
    <<"Wrote: ">> \o path \o
    (IF st # None
     THEN <<" (transpose: ">> \o SignedFmt(st[1]) \o <<" semitones)">>
     ELSE <<>>)

Echo ==
    /\ pc = "echo"
    /\ stdout' = Append(stdout, WroteLine(out_path[1], semitones))
    /\ pc' = "exit"
    /\ UNCHANGED <<Inputs, origExc, outFile, tmp, tmpFile, out_path, overwrite, semitones,
                   guardSaw, answer, ffAnswer, y, y_shifted, stderrOut, exc,
                   exitCode, trace>>

(***************************************************************************)
(* Lines 104-113: the except clauses, tried in the order written.          *)
(***************************************************************************)
ClickException(msg) == [type |-> "ClickException", detail |-> msg]

ErrorReporterSwallow(e) ==
    IF e.type = "ffmpeg.Error"
    THEN Some(ClickException(<<"ffmpeg error: ">> \o Decode(e.detail)))
    ELSE IF e.type = "ClickException"
    THEN Some(e)
    ELSE None

ErrorReporterWrapAll(e) ==
    IF e.type = "ffmpeg.Error"
    THEN Some(ClickException(<<"ffmpeg error: ">> \o Decode(e.detail)))
    ELSE Some(ClickException(<<"Failed processing file: ">> \o e.detail))

ErrorReporter(e) ==
    IF e.type = "ffmpeg.Error"
    THEN Some(ClickException(<<"ffmpeg error: ">> \o Decode(e.detail)))
    ELSE IF e.type = "ClickException"
    THEN Some(e)
    ELSE Some(ClickException(<<"Failed processing file: ">> \o e.detail))

Handler ==
    /\ pc = "handler"
    /\ exc' = ErrorReporter(exc[1])
    /\ origExc' = exc
    /\ pc' = "exit"
    /\ UNCHANGED <<Inputs, outFile, tmp, tmpFile, out_path, overwrite, semitones,
                   guardSaw, answer, ffAnswer, y, y_shifted, stdout, stderrOut,
                   exitCode, trace>>

(***************************************************************************)
(* Line 13: main is a click command. Its wrapper exits 0 when main         *)
(* returns, prints "Aborted!" and exits 1 on click.Abort, and prints       *)
(* "Error: <message>" and exits 1 on a ClickException.                     *)
(***************************************************************************)
ClickMain ==
    /\ pc = "exit"
    /\ IF exc = None
       THEN /\ exitCode' = Some(0)
            /\ UNCHANGED stderrOut
       ELSE /\ exitCode' = Some(1)
            /\ stderrOut' =
                 Append(stderrOut,
                        IF exc[1].type = "Abort" THEN <<"Aborted!">>
                        ELSE <<"Error: ">> \o exc[1].detail)
    /\ pc' = "done"
    /\ UNCHANGED <<Inputs, origExc, outFile, tmp, tmpFile, out_path, overwrite, semitones,
                   guardSaw, answer, ffAnswer, y, y_shifted, stdout, exc, trace>>

(***************************************************************************)
(* The filesystem is shared: while the job runs, another process may       *)
(* create a file at the output path.                                       *)
(***************************************************************************)
ExternalCreate ==
    /\ pc # "done"
    /\ outFile = "absent"
    /\ outFile' = "ext"
    /\ UNCHANGED <<Inputs, origExc, tmp, tmpFile, out_path, overwrite, semitones, guardSaw,
                   answer, ffAnswer, y, y_shifted, stdout, stderrOut, exc,
                   exitCode, pc, trace>>

Next ==
    \/ Guard
    \/ Select
    \/ DirectTranscode
    \/ ImportLibs
    \/ AllocTmp
    \/ TranscodeTmp
    \/ Load
    \/ Shift
    \/ PreWriteRemove
    \/ Write
    \/ Cleanup
    \/ Echo
    \/ Handler
    \/ ClickMain
    \/ ExternalCreate

Spec == Init /\ [][Next]_vars

(***************************************************************************)
(* Vocabulary of the properties.                                           *)
(***************************************************************************)
Done == pc = "done"

\* main() has returned or raised.
Left == pc \in { "exit", "done" }

Called(op) == \E i \in 1..Len(trace) : trace[i] = op

IsTmpRemoval(op) == op \in { "remove_tmp", "remove_tmp_failed" }

NotTmpRemoval(op) == ~IsTmpRemoval(op)

\* The last call made before the finally block, None when there was none.
LastStep ==
    LET steps == SelectSeq(trace, NotTmpRemoval)
    IN  IF steps = <<>> THEN None ELSE Some(steps[Len(steps)])

IsWroteLine(l) == Len(l) >= 1 /\ l[1] = "Wrote: "

\* Overwrite was confirmed by the user of this tool: --yes, or the prompt accepted.
Confirmed == yes \/ answer = Some("y")

\* The job has not touched the output path: what is there is what was there
\* when the job started, or what another process put where nothing was.
OutputUntouched == outFile = out0 \/ (out0 = "absent" /\ outFile = "ext")

(***************************************************************************)
(* C1. As claimed: after a run of the transpose path that allocated a      *)
(* temporary file, the temporary file does not exist when main() returns   *)
(* or raises.                                                              *)
(***************************************************************************)
C1_TmpGoneAtExit == (Left /\ tmp # None) => ~Exists(tmpFile)

(***************************************************************************)
(* C1, amended. After a run of the transpose path that allocated a         *)
(* temporary file, success or failure, a removal of the temporary file     *)
(* has been attempted when main() returns or raises, and the file exists   *)
(* then only if that removal failed.                                       *)
(***************************************************************************)
C1_TmpRemovalAttempted ==
    (Left /\ tmp # None) =>
        /\ Called("remove_tmp") \/ Called("remove_tmp_failed")
        /\ Exists(tmpFile) => Called("remove_tmp_failed")

C1_Witness ==
    /\ Done
    /\ tmp # None
    /\ exc # None
    /\ Called("remove_tmp")
    /\ ~Exists(tmpFile)

(***************************************************************************)
(* C2. When the output path exists, --yes is unset and the confirmation is *)
(* declined: the only call made is the prompt (no transcode, temporary     *)
(* file, removal or write), the file at the output path is unchanged, the  *)
(* 'Aborted' message is printed and the process exits non-zero. A prompt   *)
(* that meets the end of its input counts as declined: click reports       *)
(* 'Aborted!' for it as well.                                              *)
(***************************************************************************)
C2_DeclinedAborts ==
    (guardSaw = Some(TRUE) /\ ~yes /\ answer \in { Some("n"), Some("eof") }) =>
        /\ trace = <<"confirm">>
        /\ tmp = None
        /\ ~Exists(tmpFile)
        /\ Exists(outFile)
        /\ OutputUntouched
        /\ stdout = IF answer = Some("n") THEN <<AbortedMsg>> ELSE <<>>
        /\ pc \in { "exit", "done" }
        /\ Done => (exitCode = Some(1) /\ stderrOut = << <<"Aborted!">> >>)

C2_Witness == Done /\ guardSaw = Some(TRUE) /\ ~yes /\ answer = Some("n")

(***************************************************************************)
(* C3. The confirmation prompt is issued only when the output path exists  *)
(* at the guard and --yes is unset. When the path does not exist, or       *)
(* exists with --yes set, the job goes on to its pipeline unprompted: its  *)
(* first call is the import of the transpose path or the direct transcode. *)
(***************************************************************************)
C3_NoPromptUnlessNeeded ==
    /\ Called("confirm") => (guardSaw = Some(TRUE) /\ ~yes)
    /\ (guardSaw = Some(FALSE) \/ (guardSaw = Some(TRUE) /\ yes)) =>
          /\ answer = None
          /\ ~Called("confirm")
          /\ pc # "guard"
          /\ Done => (trace # <<>> /\ trace[1] \in { "import", "transcode_direct" })

C3_Witness ==
    /\ Done
    /\ guardSaw = Some(TRUE)
    /\ yes
    /\ exitCode = Some(0)
    /\ trace = <<"transcode_direct">>

(***************************************************************************)
(* C4. When a transposition is requested and librosa/soundfile cannot be   *)
(* imported, the job fails with the Missing-Capability error and exit code *)
(* 1 before any transcode: nothing is called after the import, there is no *)
(* temporary file, and the output path is untouched.                       *)
(***************************************************************************)
C4_MissingCapability ==
    (Called("import") /\ ~libsInstalled) =>
        /\ trace[Len(trace)] = "import"
        /\ tmp = None
        /\ ~Exists(tmpFile)
        /\ OutputUntouched
        /\ pc \in { "handler", "exit", "done" }
        /\ Done => /\ exitCode = Some(1)
                   /\ stderrOut = << <<"Error: ">> \o MissingMsg >>
                   /\ stdout = <<>>

C4_Witness ==
    /\ Done
    /\ transpose = Some(0 - 1)
    /\ yes
    /\ ~libsInstalled
    /\ out0 = "orig"
    /\ Called("import")

(***************************************************************************)
(* C5. In the direct path the transcode replaces a file at the output path *)
(* only if overwrite was confirmed (--yes, or the prompt accepted) or the  *)
(* user confirmed it to ffmpeg itself; otherwise, also when the file       *)
(* appeared after the guard saw none, the transcode fails with a transcode *)
(* error and leaves the file as it is.                                     *)
(***************************************************************************)
C5_DirectNeverSilentlyOverwrites ==
    [][ (pc = "direct" /\ pc' # "direct" /\ Exists(outFile)) =>
            /\ (outFile' # outFile) => (Confirmed \/ ffAnswer' = Some("y"))
            /\ ~(Confirmed \/ ffAnswer' = Some("y")) =>
                  /\ outFile' = outFile
                  /\ pc' = "handler"
                  /\ exc' # None
                  /\ exc'[1].type = "ffmpeg.Error" ]_vars

C5_Witness ==
    /\ Done
    /\ transpose = None
    /\ guardSaw = Some(FALSE)
    /\ ~yes
    /\ outFile = "ext"
    /\ ffAnswer = Some("n")
    /\ exitCode = Some(1)

(***************************************************************************)
(* C6. The process exits 0 exactly when the selected pipeline wrote its    *)
(* output, that is when every step succeeded (a removal whose failure is   *)
(* swallowed raises nothing and fails no step); then it has printed        *)
(* exactly one line, 'Wrote: <output-path>' with the optional transpose    *)
(* suffix, and it prints that line only after the output is written. Every *)
(* error and every declined overwrite ends with a non-zero exit, an error  *)
(* line and no 'Wrote:' line.                                              *)
(***************************************************************************)
C6_ExitCode ==
    /\ (\E i \in 1..Len(stdout) : IsWroteLine(stdout[i])) =>
          outFile \in { "direct", "shifted" }
    /\ Done =>
          /\ exitCode \in { Some(0), Some(1) }
          /\ (exitCode = Some(0)) <=> (outFile \in { "direct", "shifted" })
          /\ (exitCode = Some(0)) =>
                /\ Len(stdout) = 1
                /\ IsWroteLine(stdout[1])
                /\ SubSeq(stdout[1], 2, 1 + Len(out_path[1])) = out_path[1]
                /\ stderrOut = <<>>
          /\ (exitCode = Some(1)) =>
                /\ \A i \in 1..Len(stdout) : ~IsWroteLine(stdout[i])
                /\ Len(stderrOut) = 1

C6_Witness ==
    /\ Done
    /\ exitCode = Some(0)
    /\ transpose = Some(1)
    /\ Called("remove_out_failed")
    /\ Len(stdout) = 1

(***************************************************************************)
(* C7. The pipeline depends only on whether a transposition was given.     *)
(* Given any integer (0 and negatives too) the direct transcode is never   *)
(* called, and a successful job has run the whole transpose path in order  *)
(* and printed the success line with the signed transpose suffix; given    *)
(* none, only the direct transcode is called.                              *)
(***************************************************************************)
FullTransposePath(t) ==
    LET IsStep(op) == op \notin { "confirm", "remove_out", "remove_out_failed" }
        steps == SelectSeq(t, IsStep)
    IN  /\ Len(steps) = 7
        /\ SubSeq(steps, 1, 6) =
             <<"import", "mktemp", "transcode_tmp", "load", "pitch_shift", "write">>
        /\ IsTmpRemoval(steps[7])

ExpectedSuffix(n) ==
    <<" (transpose: ", IF n < 0 THEN "-" ELSE "+">>
    \o Digits(IF n < 0 THEN 0 - n ELSE n) \o <<" semitones)">>

C7_PipelineSelection ==
    /\ transpose = None =>
          \A i \in 1..Len(trace) : trace[i] \in { "confirm", "transcode_direct" }
    /\ transpose # None =>
          /\ ~Called("transcode_direct")
          /\ (Done /\ exitCode = Some(0)) =>
                /\ FullTransposePath(trace)
                /\ y_shifted = transpose
                /\ stdout = << <<"Wrote: ">> \o out_path[1]
                                \o ExpectedSuffix(transpose[1]) >>
    /\ (Done /\ exitCode = Some(0) /\ transpose = None) =>
          /\ LastStep = Some("transcode_direct")
          /\ stdout = << <<"Wrote: ">> \o out_path[1] >>

C7_Witness ==
    /\ Done
    /\ transpose = Some(0)
    /\ exitCode = Some(0)
    /\ outFile = "shifted"

(***************************************************************************)
(* C8. A failure in the processing block is reported as exactly one error: *)
(* a failed transcode (either path) as 'ffmpeg error: ' with the decoded   *)
(* captured stderr; the Missing-Capability error as it was raised, not     *)
(* wrapped; a failure of any other step as 'Failed processing file: ' with *)
(* the original detail. No call is made twice.                             *)
(***************************************************************************)
C8_ErrorMapping ==
    /\ \A i, j \in 1..Len(trace) : trace[i] = trace[j] => i = j
    /\ (Left /\ origExc # None) =>
          /\ exc # None
          /\ exc[1].type = "ClickException"
          /\ LastStep \in { Some("transcode_direct"), Some("transcode_tmp") } =>
                /\ origExc[1].type = "ffmpeg.Error"
                /\ exc[1].detail = <<"ffmpeg error: ">> \o Decode(origExc[1].detail)
          /\ LastStep = Some("import") => exc[1].detail = MissingMsg
          /\ LastStep \in { Some("mktemp"), Some("load"), Some("pitch_shift"),
                            Some("write") } =>
                exc[1].detail = <<"Failed processing file: ", LastStep[1]>>
          /\ Done => stderrOut = << <<"Error: ">> \o exc[1].detail >>

C8_Witness ==
    /\ Done
    /\ LastStep = Some("transcode_tmp")
    /\ origExc = Exc("ffmpeg.Error", <<"e", "xFF">>)
    /\ stderrOut = << <<"Error: ", "ffmpeg error: ", "e">> >>

(***************************************************************************)
(* C9. As claimed: in the transpose path a file present at the output path *)
(* is removed or replaced only if overwrite was confirmed (--yes set or    *)
(* the prompt accepted), also when the file appeared after the guard saw   *)
(* none.                                                                   *)
(***************************************************************************)
C9_TransposeNeverSilentlyOverwrites ==
    [][ (semitones # None /\ outFile \in { "orig", "ext" } /\ outFile' # outFile)
            => Confirmed ]_vars

(***************************************************************************)
(* C10. In the transpose path the output path is neither removed nor       *)
(* written before the temporary transcode, the load and the pitch shift    *)
(* have succeeded, in that order; so when the job ends with an error of    *)
(* one of these three, the job has left the output path untouched.         *)
(***************************************************************************)
TouchesOutput(op) == op \in { "remove_out", "remove_out_failed", "write" }

C10_OutputUntouchedBeforeShift ==
    /\ \A i \in 1..Len(trace) :
          (transpose # None /\ TouchesOutput(trace[i])) =>
              /\ i > 3
              /\ \E k \in 1..(i - 3) :
                    SubSeq(trace, k, k + 2) = <<"transcode_tmp", "load", "pitch_shift">>
              /\ tmpFile \in { "wav", "absent" }
              /\ y = Some("mono")
              /\ y_shifted = transpose
    /\ ( /\ Left
         /\ exc # None
         /\ LastStep \in { Some("transcode_tmp"), Some("load"), Some("pitch_shift") } )
          => OutputUntouched

C10_Witness ==
    /\ Done
    /\ exitCode = Some(1)
    /\ LastStep = Some("pitch_shift")
    /\ yes
    /\ out0 = "orig"
    /\ outFile = "orig"

====
